---- MODULE Spec2Model ----
(***************************************************************************)
(* The quiz flow of QuizNova: the App shell (src/App.tsx) that walks       *)
(* UPLOAD -> CONFIG -> LOADING -> PLAYING and mounts the QuizPlayer, and   *)
(* the QuizPlayer component (src/components/QuizPlayer.tsx) with its       *)
(* useState cells, its effects and its handlers.                           *)
(*                                                                         *)
(* One action is one browser task: a handler (or the interval callback)    *)
(* followed by the render it schedules and the effects of that render,     *)
(* run to quiescence.  Numbers that are fractions in the source            *)
(* (1.5, 0.1 * streak) are carried in tenths, so every value is an exact   *)
(* integer; Math.round is computed on the exact quotient.                  *)
(* Strings are sequences of one-character strings.                         *)
(*                                                                         *)
(* The voice panel (VoiceAssistant, src/unnamed/part_000) is modelled      *)
(* beside the quiz: SpecVoice is the life of its sessions (open, close,    *)
(* the asynchronous steps of startSession and the callbacks of the remote  *)
(* session), SpecPlayback the scheduling of inbound audio in one           *)
(* connected session.                                                      *)
(*                                                                         *)
(* SpecGenerate is the App shell alone with the loading-message interval   *)
(* of handleGenerate; SpecRace is the quiz flow with the countdown in two  *)
(* tasks, the interval callback and the render of the update it queued.    *)
(***************************************************************************)
EXTENDS Integers, Sequences, FiniteSets, TLC

VARIABLES
    step,          \* App: useState<AppStep>
    textInput,     \* App: useState('')
    uploadedFile,  \* App: useState<UploadedFile | null>
    config,        \* App: useState<QuizConfig>
    quizData,      \* App: useState<QuizData | null>
    player,        \* the QuizPlayer instance: its useState cells, or Unmounted
    restarted,     \* history: a finished session with score > 0 was restarted
    leaderboardData, \* QuizPlayer: useState<LeaderboardEntry[]>([])
    queuedTick,    \* QuizPlayer: the setTimeLeft update of an interval callback
                   \*   that React has not rendered yet: "none", "eager" (the
                   \*   updater ran when it was queued) or "lazy" (it runs in
                   \*   the render)
    generation,    \* App: the latest call of handleGenerate: its loading-message
                   \*   interval, useState('') loadingMsg, the promise of
                   \*   generateQuiz, and the alerts it has shown
    showVoice,     \* App: useState(false), the isOpen prop of VoiceAssistant
    status,        \* VoiceAssistant: useState('connecting')
    volume,        \* VoiceAssistant: useState(0); 1 stands for any level above 0
    refs,          \* VoiceAssistant: audioContextRef, streamRef, processorRef,
                   \*   sourceRef, sessionRef; 0 is null, k the object that the
                   \*   k-th call of startSession made
    sessions,      \* the calls of startSession so far: where each stands and
                   \*   the browser objects it made
    nextStartTime, \* VoiceAssistant: nextStartTimeRef
    currentTime,   \* currentTime of the playback AudioContext, in samples
    scheduled,     \* history: the inbound frames given to source.start
    dropped        \* history: how many inbound frames playAudioChunk gave up

\* the state of the voice panel
voiceVars == <<showVoice, status, volume, refs, sessions, nextStartTime,
               currentTime, scheduled, dropped>>

\* the variables Spec, the quiz flow, leaves alone
besideQuiz == <<leaderboardData, voiceVars, generation, queuedTick>>

vars == <<step, textInput, uploadedFile, config, quizData, player, restarted,
          besideQuiz>>

----------------------------------------------------------------------------
(* Bounds of the model *)

\* longest quiz the generator returns
MaxQuestions == 7
\* with the timer on, the quiz returned has at most this many seconds of
\* countdown in total (questions * secondsPerQuestion)
MaxTimedSeconds == 40
\* SpecSummary examines the end of sessions of every length up to
\* MaxSummaryQuiz, and of one long quiz of LongQuiz questions
MaxSummaryQuiz == 44
LongQuiz == 200
\* calls of startSession (openings of the voice panel) in one run
MaxSessions == 2
\* SpecPlayback: the playback clock runs up to MaxClock samples, and up to
\* MaxFrames inbound frames are scheduled
MaxClock == 5
MaxFrames == 4

----------------------------------------------------------------------------
(* types.ts *)

AppStep == {"UPLOAD", "CONFIG", "LOADING", "PLAYING", "RESULTS"}

Difficulty == {"Easy", "Medium", "Hard", "Very Hard"}

----------------------------------------------------------------------------
(* Strings *)

\* the characters the answers below are written in
Whitespace == {" ", "\t"}

\* String.prototype.toLowerCase, character by character
toLowerChar(c) ==
    CASE c = "P" -> "p"
      [] c = "A" -> "a"
      [] c = "R" -> "r"
      [] c = "I" -> "i"
      [] c = "S" -> "s"
      [] OTHER -> c

toLowerCase(s) == [i \in 1..Len(s) |-> toLowerChar(s[i])]

RECURSIVE trimStart(_)
trimStart(s) ==
    IF s # <<>> /\ Head(s) \in Whitespace THEN trimStart(Tail(s)) ELSE s

RECURSIVE trimEnd(_)
trimEnd(s) ==
    IF s # <<>> /\ s[Len(s)] \in Whitespace
    THEN trimEnd(SubSeq(s, 1, Len(s) - 1))
    ELSE s

\* String.prototype.trim
trim(s) == trimEnd(trimStart(s))

----------------------------------------------------------------------------
(* Inputs *)

Paris      == <<"p", "a", "r", "i", "s">>
ParisPad   == <<" ", "P", "a", "r", "i", "s", " ">>
ParisUpper == <<"P", "A", "R", "I", "S", "\t">>
ParSis     == <<"p", "a", "r", " ", "i", "s">>
Blank      == <<" ">>
Empty      == <<>>

\* what the user can click or type as an answer
Answers == {Empty, Paris, ParisPad, ParSis, Blank}

\* correctAnswer of question i of the generated quiz
ExpectedAnswers == <<Paris, ParisUpper, ParisPad, ParSis>>

\* the QuizData the generator returns for n questions
QuizOf(n) ==
    [null |-> FALSE,
     questions |-> [i \in 1..n |->
        [correctAnswer |-> ExpectedAnswers[((i - 1) % Len(ExpectedAnswers)) + 1]]]]

NoQuiz == [null |-> TRUE]

\* values of the "Seconds per Question" slider the user moves to
SliderSeconds == {10}

----------------------------------------------------------------------------
(* QuizPlayer: state *)

\* useState<number>(Infinity): no correct answer timed yet
Infinity == -1

\* no QuizPlayer instance exists
Unmounted == [mounted |-> FALSE]

\* QuizPlayer.tsx:31-45, the useState initial values
InitialPlayer(cfg) ==
    [mounted        |-> TRUE,
     currentIdx     |-> 0,
     selectedAnswer |-> Empty,
     showResult     |-> FALSE,
     score          |-> 0,
     coins          |-> 0,
     quizFinished   |-> FALSE,
     streak         |-> 0,
     maxStreak      |-> 0,
     timeLeft       |-> IF cfg.enableTimer THEN cfg.secondsPerQuestion ELSE 0,
     timerActive    |-> FALSE,
     fastestAnswer  |-> Infinity,
     timer          |-> FALSE]      \* a setInterval of the Timer Effect is live

----------------------------------------------------------------------------
(* QuizPlayer: effects *)

\* "Update max streak" that never writes
UpdateMaxStreak_Never(p) == p

\* "Update max streak"
UpdateMaxStreak(p) ==
    IF p.streak > p.maxStreak THEN [p EXCEPT !.maxStreak = p.streak] ELSE p

\* ResetTimer without its setTimerActive(true)
ResetTimer_NoActivate(p, cfg, idxChanged) ==
    IF idxChanged /\ cfg.enableTimer
    THEN [p EXCEPT !.timeLeft = cfg.secondsPerQuestion]
    ELSE p

\* "Reset Timer on new question": runs on mount and when currentIdx changed
ResetTimer(p, cfg, idxChanged) ==
    IF idxChanged /\ cfg.enableTimer
    THEN [p EXCEPT !.timeLeft = cfg.secondsPerQuestion, !.timerActive = TRUE]
    ELSE p

\* "Timer Effect": the cleanup clears the interval of the previous run, the
\* body starts one unless it returns early
TimerEffect(p, cfg) ==
    [p EXCEPT !.timer =
        ~(~cfg.enableTimer \/ ~p.timerActive \/ p.showResult \/ p.quizFinished)]

\* the effects of the commit that follows a handler, and of the commits the
\* effects themselves schedule, until no state changes
RunEffects(p, cfg, idxChanged) ==
    TimerEffect(UpdateMaxStreak(ResetTimer(p, cfg, idxChanged)), cfg)

----------------------------------------------------------------------------
(* QuizPlayer: scoring *)

Min(a, b) == IF a <= b THEN a ELSE b

\* Math.round of the exact quotient n / d (d > 0): the nearest integer, a
\* half rounding up
MathRound(n, d) == (2 * n + d) \div (2 * d)

\* DIFFICULTY_MULTIPLIER, in tenths
DIFFICULTY_MULTIPLIER(d) ==
    CASE d = "Easy"      -> 10
      [] d = "Medium"    -> 15
      [] d = "Hard"      -> 20
      [] d = "Very Hard" -> 30

\* earnedCoins without the 50% cap on the streak bonus
earnedCoins_Uncapped(cfg, timeLeft, streak) ==
    LET timeBonus == IF cfg.enableTimer THEN timeLeft * 2 ELSE 0
    IN  MathRound((100 * DIFFICULTY_MULTIPLIER(cfg.difficulty) + 10 * timeBonus)
                    * (10 + streak), 100)

\* earnedCoins with basePoints of 50
earnedCoins_HalfBase(cfg, timeLeft, streak) ==
    LET timeBonus == IF cfg.enableTimer THEN timeLeft * 2 ELSE 0
    IN  MathRound((50 * DIFFICULTY_MULTIPLIER(cfg.difficulty) + 10 * timeBonus)
                    * (10 + Min(streak, 5)), 100)

\* "Calculate Coins" of handleSubmit; diffMult and streakBonus in tenths.
\* basePoints * diffMult + timeBonus is an even integer, so the exact product
\* is a multiple of 0.2 and the double the source rounds lies on the same
\* side of every half as the exact value.
earnedCoins(cfg, timeLeft, streak) ==
    LET basePoints  == 100
        diffMult    == IF DIFFICULTY_MULTIPLIER(cfg.difficulty) # 0
                       THEN DIFFICULTY_MULTIPLIER(cfg.difficulty) ELSE 10
        timeBonus   == IF cfg.enableTimer THEN timeLeft * 2 ELSE 0
        streakBonus == Min(streak, 5)
    IN  MathRound((basePoints * diffMult + 10 * timeBonus) * (10 + streakBonus), 100)

\* currentQ
currentQ(p, quiz) == quiz.questions[p.currentIdx + 1]

\* isCorrect without toLowerCase
isCorrect_CaseSensitive(selectedAnswer, correctAnswer) ==
    trim(selectedAnswer) = trim(correctAnswer)

\* the comparison of handleSubmit
isCorrect(selectedAnswer, correctAnswer) ==
    trim(toLowerCase(selectedAnswer)) = trim(toLowerCase(correctAnswer))

\* timeTaken < fastestAnswer
FasterThan(timeTaken, fastestAnswer) ==
    fastestAnswer = Infinity \/ timeTaken < fastestAnswer

----------------------------------------------------------------------------
(* QuizPlayer: handlers, as functions of the state they close over *)

\* handleTimeRunOut without setStreak(0)
handleTimeRunOut_KeepsStreak(p) == [p EXCEPT !.showResult = TRUE]

handleTimeRunOut(p) == [p EXCEPT !.streak = 0, !.showResult = TRUE]

\* the interval callback testing prev <= 0: the countdown shows 0 for a
\* second before the time runs out
TimerCallback_LateExpiry(p) ==
    IF p.timeLeft <= 0
    THEN [p EXCEPT !.streak = 0, !.showResult = TRUE, !.timer = FALSE, !.timeLeft = 0]
    ELSE [p EXCEPT !.timeLeft = p.timeLeft - 1]

\* the interval callback that stops at 0 without handleTimeRunOut
TimerCallback_NoReveal(p) ==
    IF p.timeLeft <= 1
    THEN [p EXCEPT !.timer = FALSE, !.timeLeft = 0]
    ELSE [p EXCEPT !.timeLeft = p.timeLeft - 1]

\* the interval callback: setTimeLeft(prev => ...)
TimerCallback(p) ==
    IF p.timeLeft <= 1
    THEN [handleTimeRunOut(p) EXCEPT !.timer = FALSE, !.timeLeft = 0]
    ELSE [p EXCEPT !.timeLeft = p.timeLeft - 1]

handleAnswer(p, answer) ==
    IF p.showResult THEN p ELSE [p EXCEPT !.selectedAnswer = answer]

\* the isCorrect branch of handleSubmit, after setTimerActive(false)
SubmitCorrect(p, cfg) ==
    LET timeTaken == IF cfg.enableTimer
                     THEN cfg.secondsPerQuestion - p.timeLeft ELSE 0
    IN  [p EXCEPT
           !.timerActive = FALSE,
           !.score = p.score + 1,
           !.fastestAnswer = IF FasterThan(timeTaken, p.fastestAnswer)
                             THEN timeTaken ELSE p.fastestAnswer,
           !.coins = p.coins + earnedCoins(cfg, p.timeLeft, p.streak),
           !.streak = p.streak + 1]

\* handleSubmit whose else branch takes 50 coins as a penalty
handleSubmit_Penalty(p, cfg, quiz) ==
    LET p2 == IF isCorrect(p.selectedAnswer, currentQ(p, quiz).correctAnswer)
              THEN SubmitCorrect(p, cfg)
              ELSE [p EXCEPT !.timerActive = FALSE, !.streak = 0,
                             !.coins = IF p.coins >= 50 THEN p.coins - 50 ELSE 0]
    IN  [p2 EXCEPT !.showResult = TRUE]

\* handleSubmit whose else branch forgets setStreak(0)
handleSubmit_KeepsStreak(p, cfg, quiz) ==
    LET p2 == IF isCorrect(p.selectedAnswer, currentQ(p, quiz).correctAnswer)
              THEN SubmitCorrect(p, cfg)
              ELSE [p EXCEPT !.timerActive = FALSE]
    IN  [p2 EXCEPT !.showResult = TRUE]

handleSubmit(p, cfg, quiz) ==
    LET p2 == IF isCorrect(p.selectedAnswer, currentQ(p, quiz).correctAnswer)
              THEN SubmitCorrect(p, cfg)
              ELSE [p EXCEPT !.timerActive = FALSE, !.streak = 0]
    IN  [p2 EXCEPT !.showResult = TRUE]

\* handleNext without setSelectedAnswer('')
handleNext_KeepsSelection(p, quiz) ==
    IF p.currentIdx < Len(quiz.questions) - 1
    THEN [p EXCEPT !.currentIdx = p.currentIdx + 1, !.showResult = FALSE]
    ELSE [p EXCEPT !.quizFinished = TRUE]

\* handleNext comparing with <= : it advances past the last question
handleNext_OffByOne(p, quiz) ==
    IF p.currentIdx <= Len(quiz.questions) - 1
    THEN [p EXCEPT !.currentIdx = p.currentIdx + 1,
                   !.selectedAnswer = Empty,
                   !.showResult = FALSE]
    ELSE [p EXCEPT !.quizFinished = TRUE]

\* handleNext that advances whatever the index
handleNext_Unbounded(p, quiz) ==
    [p EXCEPT !.currentIdx = p.currentIdx + 1,
              !.selectedAnswer = Empty,
              !.showResult = FALSE]

handleNext(p, quiz) ==
    IF p.currentIdx < Len(quiz.questions) - 1
    THEN [p EXCEPT !.currentIdx = p.currentIdx + 1,
                   !.selectedAnswer = Empty,
                   !.showResult = FALSE]
    ELSE [p EXCEPT !.quizFinished = TRUE]

----------------------------------------------------------------------------
(* QuizPlayer: the leaderboard effect *)

\* the values of Math.floor(Math.random() * 600) the model draws, out of
\* 0..599: both ends, and values between
RandomDraws == {0, 150, 300, 599}

\* the outcomes of names.sort(() => 0.5 - Math.random()).slice(0, 3) the
\* model draws: three distinct names of the pool, in some order
NameDraws ==
    {<<"QuantumDrifter", "NebulaNinja", "VoidWalker">>,
     <<"WarpSpeed", "StarGazer", "QuantumDrifter">>}

Max(a, b) == IF a >= b THEN a ELSE b

\* botScore without the floor of 50
botScore_NoFloor(coins, draw) == coins + (draw - 300)

\* botScore of one bot, draw being Math.floor(Math.random() * 600)
botScore(coins, draw) ==
    LET variance == draw - 300
    IN  Max(50, coins + variance)

\* bots (the avatar, a random glyph, is left out)
bots(coins, selectedNames, draws) ==
    [i \in 1..3 |->
        [name |-> selectedNames[i], score |-> botScore(coins, draws[i]),
         isUser |-> FALSE]]

userEntry(coins) == [name |-> "Captain You", score |-> coins, isUser |-> TRUE]

\* e put behind every entry of the sorted list that scores at least e.score
InsertByScore(sorted, e) ==
    LET k == Cardinality({i \in 1..Len(sorted) : sorted[i].score >= e.score})
    IN  SubSeq(sorted, 1, k) \o <<e>> \o SubSeq(sorted, k + 1, Len(sorted))

\* sort that leaves the list in the order it came
SortByScore_Identity(list) == list

\* Array.prototype.sort((a, b) => b.score - a.score): descending and stable
RECURSIVE SortByScore(_)
SortByScore(list) ==
    IF list = <<>> THEN <<>>
    ELSE InsertByScore(SortByScore(SubSeq(list, 1, Len(list) - 1)), list[Len(list)])

\* finalBoard of the "Generate Leaderboard" effect
finalBoard(coins, selectedNames, draws) ==
    SortByScore(bots(coins, selectedNames, draws) \o <<userEntry(coins)>>)

----------------------------------------------------------------------------
(* QuizPlayer: the finished view *)

\* fastestAnswer < limit, fastestAnswer being a number of seconds or Infinity
Under(fastestAnswer, limit) == fastestAnswer # Infinity /\ fastestAnswer < limit

\* the quotients score / n at which (score / n) * 100, computed in doubles,
\* falls just below a half that the exact product reaches (all such
\* quotients for n <= 201)
HalfLost(score, n) ==
    \/ 40 * score = 23 * n
    \/ 200 * score \in {29 * n, 57 * n, 113 * n}

\* Math.round((score / quiz.questions.length) * 100)
percentageOf(score, n) ==
    IF HalfLost(score, n) THEN MathRound(100 * score, n) - 1
    ELSE MathRound(100 * score, n)

getRank(percentage) ==
    IF percentage = 100 THEN "Galactic Overlord"
    ELSE IF percentage >= 80 THEN "Star Voyager"
    ELSE IF percentage >= 50 THEN "Space Cadet"
    ELSE "Rocket Rookie"

\* getAchievements without the test of config.enableTimer
getAchievements_AnyTimer(finalScore, totalQuestions, maxStreakVal, cfg, fastestAnswer) ==
    {id \in {"perfectionist", "unstoppable", "speedster", "knowledgeable"} :
        \/ id = "perfectionist" /\ finalScore * 100 = 100 * totalQuestions
        \/ id = "unstoppable" /\ maxStreakVal >= 5
        \/ id = "speedster" /\ Under(fastestAnswer, 5)
        \/ id = "knowledgeable" /\ finalScore * 100 >= 50 * totalQuestions
                                /\ finalScore * 100 < 100 * totalQuestions}

\* getAchievements: the ids of the achievements it returns; percentage is
\* (finalScore / totalQuestions) * 100, not rounded, and is compared here
\* after multiplying through by totalQuestions; cfg and fastestAnswer are
\* the config prop and the state cell the closure reads
getAchievements(finalScore, totalQuestions, maxStreakVal, cfg, fastestAnswer) ==
    {id \in {"perfectionist", "unstoppable", "speedster", "knowledgeable"} :
        \/ id = "perfectionist" /\ finalScore * 100 = 100 * totalQuestions
        \/ id = "unstoppable" /\ maxStreakVal >= 5
        \/ id = "speedster" /\ cfg.enableTimer /\ Under(fastestAnswer, 5)
        \/ id = "knowledgeable" /\ finalScore * 100 >= 50 * totalQuestions
                                /\ finalScore * 100 < 100 * totalQuestions}

----------------------------------------------------------------------------
(* VoiceAssistant *)

NullRefs == [audioContext |-> 0, stream |-> 0, processor |-> 0, source |-> 0, session |-> 0]

\* the state of VoiceAssistant once mounted with isOpen = false: the
\* useState and useRef initial values, which the cleanup() of the first
\* effect run does not change
VoiceAssistantMounted ==
    /\ status = "connecting"
    /\ volume = 0
    /\ refs = NullRefs
    /\ sessions = <<>>
    /\ nextStartTime = 0
    /\ currentTime = 0
    /\ scheduled = <<>>
    /\ dropped = 0

\* a call of startSession at its first await: audioCtx made, getUserMedia
\* pending.  pc is where the call and its remote session stand:
\*   "awaitMic"  getUserMedia pending
\*   "denied"    getUserMedia rejected, the catch ran
\*   "awaitOpen" ai.live.connect called, no callback yet
\*   "open"      onopen ran
\*   "errored"   onerror ran
\*   "closed"    onclose ran
StartedSession ==
    [pc        |-> "awaitMic",
     audioCtx  |-> "running",      \* new AudioContextClass({ sampleRate: 24000 })
     stream    |-> "none",         \* the MediaStream: "none", "live", "stopped"
     inputCtx  |-> "none",         \* new AudioContextClass({ sampleRate: 16000 })
     source    |-> "none",         \* "none", "connected", "disconnected"
     processor |-> "none"]         \* "none", "connected", "disconnected"

\* cleanup: the refs and the objects after it (it also sets status to
\* 'connecting' and volume to 0); the session is dropped, not closed
cleanup(r, ss) ==
    <<NullRefs,
      [k \in DOMAIN ss |->
         [ss[k] EXCEPT !.processor = IF r.processor = k THEN "disconnected" ELSE @,
                       !.source    = IF r.source = k THEN "disconnected" ELSE @,
                       !.stream    = IF r.stream = k THEN "stopped" ELSE @,
                       !.audioCtx  = IF r.audioContext = k THEN "closed" ELSE @]]>>

QuizUnchanged ==
    UNCHANGED <<step, textInput, uploadedFile, config, quizData, player, restarted,
                leaderboardData, generation, queuedTick>>

\* setShowVoice(true) / setShowVoice(!showVoice), and the effect of the
\* render with isOpen = true: startSession up to its first await
OpenPanel ==
    /\ ~showVoice
    /\ Len(sessions) < MaxSessions
    /\ showVoice' = TRUE
    /\ status' = "connecting"
    /\ sessions' = Append(sessions, StartedSession)
    /\ refs' = [refs EXCEPT !.audioContext = Len(sessions) + 1]
    /\ nextStartTime' = 0
    /\ UNCHANGED <<volume, currentTime, scheduled, dropped>>
    /\ QuizUnchanged

\* onClose / setShowVoice(!showVoice), and the effect of the render with
\* isOpen = false: the cleanup the last run returned, then cleanup() again
ClosePanel ==
    /\ showVoice
    /\ showVoice' = FALSE
    /\ LET once  == cleanup(refs, sessions)
           twice == cleanup(once[1], once[2])
       IN  refs' = twice[1] /\ sessions' = twice[2]
    /\ status' = "connecting"
    /\ volume' = 0
    /\ UNCHANGED <<nextStartTime, currentTime, scheduled, dropped>>
    /\ QuizUnchanged

\* getUserMedia of call k resolved: startSession runs on to its end
MicGranted(k) ==
    /\ k \in DOMAIN sessions
    /\ sessions[k].pc = "awaitMic"
    /\ sessions' = [sessions EXCEPT ![k].stream = "live", ![k].pc = "awaitOpen"]
    /\ refs' = [refs EXCEPT !.stream = k, !.session = k]
    /\ UNCHANGED <<showVoice, status, volume, nextStartTime, currentTime, scheduled, dropped>>
    /\ QuizUnchanged

\* getUserMedia of call k rejected: the catch of startSession
MicDenied(k) ==
    /\ k \in DOMAIN sessions
    /\ sessions[k].pc = "awaitMic"
    /\ sessions' = [sessions EXCEPT ![k].pc = "denied"]
    /\ status' = "error"
    /\ UNCHANGED <<showVoice, volume, refs, nextStartTime, currentTime, scheduled, dropped>>
    /\ QuizUnchanged

\* the onopen callback of the session of call k
onopen(k) ==
    /\ k \in DOMAIN sessions
    /\ sessions[k].pc = "awaitOpen"
    /\ status' = "connected"
    /\ sessions' = [sessions EXCEPT ![k].pc = "open",
                                    ![k].inputCtx = "running",
                                    ![k].source = "connected",
                                    ![k].processor = "connected"]
    /\ refs' = [refs EXCEPT !.source = k, !.processor = k]
    /\ UNCHANGED <<showVoice, volume, nextStartTime, currentTime, scheduled, dropped>>
    /\ QuizUnchanged

\* the onerror callback of the session of call k
onerror(k) ==
    /\ k \in DOMAIN sessions
    /\ sessions[k].pc \in {"awaitOpen", "open"}
    /\ status' = "error"
    /\ sessions' = [sessions EXCEPT ![k].pc = "errored"]
    /\ UNCHANGED <<showVoice, volume, refs, nextStartTime, currentTime, scheduled, dropped>>
    /\ QuizUnchanged

\* the onclose callback of the session of call k
onclose(k) ==
    /\ k \in DOMAIN sessions
    /\ sessions[k].pc \in {"awaitOpen", "open", "errored"}
    /\ status' = "error"
    /\ sessions' = [sessions EXCEPT ![k].pc = "closed"]
    /\ UNCHANGED <<showVoice, volume, refs, nextStartTime, currentTime, scheduled, dropped>>
    /\ QuizUnchanged

\* the processor of call k delivers audioprocess events: it is connected to
\* its source and to the destination
Capturing(ss, k) == ss[k].processor = "connected" /\ ss[k].source = "connected"

\* processor.onaudioprocess of call k with a block of level rms; a stopped
\* stream yields silence.  The block is sent on the session of call k.
onaudioprocess(k, rms) ==
    /\ k \in DOMAIN sessions
    /\ Capturing(sessions, k)
    /\ volume' = IF sessions[k].stream = "live" THEN rms ELSE 0
    /\ UNCHANGED <<showVoice, status, refs, sessions, nextStartTime, currentTime, scheduled, dropped>>
    /\ QuizUnchanged

----------------------------------------------------------------------------
(* VoiceAssistant: playback of inbound audio.  Time is counted in samples   *)
(* of the 24000 Hz playback context, so buffer.duration is the number of    *)
(* samples of the buffer.                                                   *)

\* byte lengths of the decoded inlineData of the messages the model
\* delivers: 0 is a message without audio data, 3 cannot be viewed as 16-bit
\* samples, 2 and 4 are frames of 1 and 2 samples
FrameBytes == {0, 2, 3, 4}

\* new Int16Array(bytes.buffer) throws on an odd byte length
Decodes(bytes) == bytes % 2 = 0

\* buffer.duration of the buffer made of the frame
bufferDuration(bytes) == bytes \div 2

\* playAudioChunk that starts every frame at once
playAudioChunk_Immediate(bytes, now, cursor, ctxThrows) ==
    IF Decodes(bytes) /\ ~ctxThrows
    THEN [played |-> TRUE, now |-> now, startTime |-> now,
          duration |-> bufferDuration(bytes),
          nextStartTime |-> now + bufferDuration(bytes)]
    ELSE [played |-> FALSE, nextStartTime |-> cursor]

\* playAudioChunk that moves the cursor to the end of a frame started now
playAudioChunk_CursorFromNow(bytes, now, cursor, ctxThrows) ==
    IF Decodes(bytes) /\ ~ctxThrows
    THEN [played |-> TRUE, now |-> now, startTime |-> Max(now, cursor),
          duration |-> bufferDuration(bytes),
          nextStartTime |-> now + bufferDuration(bytes)]
    ELSE [played |-> FALSE, nextStartTime |-> cursor]

\* playAudioChunk that moves the cursor past a frame it gave up
playAudioChunk_CountsDropped(bytes, now, cursor, ctxThrows) ==
    IF Decodes(bytes) /\ ~ctxThrows
    THEN [played |-> TRUE, now |-> now, startTime |-> Max(now, cursor),
          duration |-> bufferDuration(bytes),
          nextStartTime |-> Max(now, cursor) + bufferDuration(bytes)]
    ELSE [played |-> FALSE, nextStartTime |-> Max(now, cursor) + bufferDuration(bytes)]

\* playAudioChunk on a frame of the given byte length, now being
\* ctx.currentTime and cursor nextStartTimeRef.current: what is given to
\* source.start, and the cursor afterwards; the catch leaves the cursor
\* alone.  ctxThrows: the calls on ctx (createBuffer, createBufferSource,
\* start) throw, as some browsers make them on a closed context
playAudioChunk(bytes, now, cursor, ctxThrows) ==
    IF Decodes(bytes) /\ ~ctxThrows
    THEN LET startTime == Max(now, cursor)
         IN  [played |-> TRUE, now |-> now, startTime |-> startTime,
              duration |-> bufferDuration(bytes),
              nextStartTime |-> startTime + bufferDuration(bytes)]
    ELSE [played |-> FALSE, nextStartTime |-> cursor]

LifeUnchanged == UNCHANGED <<showVoice, status, volume, refs, sessions>>

\* the onmessage callback of the session of call k with a message whose
\* audio data decodes to the given number of bytes; playAudioChunk is given
\* the audioCtx of call k, closed or not
onmessage(k, bytes, ctxThrows) ==
    /\ k \in DOMAIN sessions
    /\ sessions[k].pc = "open"
    /\ ctxThrows => sessions[k].audioCtx = "closed"
    /\ Len(scheduled) + dropped < MaxFrames
    /\ IF bytes = 0
       THEN UNCHANGED <<nextStartTime, scheduled, dropped>>
       ELSE LET chunk == playAudioChunk(bytes, currentTime, nextStartTime, ctxThrows)
            IN  /\ nextStartTime' = chunk.nextStartTime
                /\ dropped' = IF chunk.played THEN dropped ELSE dropped + 1
                /\ scheduled' = IF chunk.played
                                THEN Append(scheduled,
                                            [now |-> chunk.now, startTime |-> chunk.startTime,
                                             duration |-> chunk.duration])
                                ELSE scheduled
    /\ UNCHANGED currentTime
    /\ LifeUnchanged
    /\ QuizUnchanged

\* the playback context's clock moves on by one sample; the clock of a
\* closed context stands still
ClockAdvance ==
    /\ currentTime < MaxClock
    /\ \E k \in DOMAIN sessions : sessions[k].audioCtx = "running"
    /\ currentTime' = currentTime + 1
    /\ UNCHANGED <<nextStartTime, scheduled, dropped>>
    /\ LifeUnchanged
    /\ QuizUnchanged

----------------------------------------------------------------------------
(* App *)

NoFile == "null"
SomeFile == "file"
SomeText == <<"n", "o", "t", "e", "s">>

DefaultConfig ==
    [difficulty         |-> "Medium",
     questionCount      |-> 5,
     questionType       |-> "Multiple Choice",
     enableTimer        |-> FALSE,
     secondsPerQuestion |-> 30]

\* the JSX condition under which App renders <QuizPlayer>
RendersQuizPlayer(st, qd) == st \in {"PLAYING", "RESULTS"} /\ ~qd.null

\* Reconcile for a QuizPlayer that is hidden, not unmounted, when App stops
\* rendering it
Reconcile_KeepsInstance(p, st, qd, cfg) ==
    IF p.mounted THEN p
    ELSE IF st \in {"PLAYING", "RESULTS"} /\ ~qd.null
         THEN TimerEffect(UpdateMaxStreak(ResetTimer(InitialPlayer(cfg), cfg, TRUE)), cfg)
         ELSE Unmounted

\* the QuizPlayer after App commits (st, qd): mounted with fresh state when
\* it starts to be rendered, gone when it stops, else as it was
Reconcile(p, st, qd, cfg) ==
    IF RendersQuizPlayer(st, qd)
    THEN IF p.mounted THEN p ELSE RunEffects(InitialPlayer(cfg), cfg, TRUE)
    ELSE Unmounted

\* resetApp: the (step, quizData, uploadedFile, textInput) it sets
resetApp == <<"UPLOAD", NoQuiz, NoFile, Empty>>

\* the loading messages msgs[0..4]; loadingMsg -1 is the initial ''
LoadingMessages == 5

\* before the first call of handleGenerate
NoGeneration == [interval |-> "none", loadingMsg |-> -1, pending |-> FALSE, alerts |-> 0]

Init ==
    /\ step = "UPLOAD"
    /\ textInput = Empty
    /\ uploadedFile = NoFile
    /\ config = DefaultConfig
    /\ quizData = NoQuiz
    /\ player = Unmounted
    /\ restarted = FALSE
    /\ leaderboardData = <<>>
    /\ queuedTick = "none"
    /\ generation = NoGeneration
    /\ showVoice = FALSE
    /\ VoiceAssistantMounted

\* the textarea's onChange
OnTextChange(t) ==
    /\ step = "UPLOAD"
    /\ textInput' = t
    /\ uploadedFile' = IF t # Empty THEN NoFile ELSE uploadedFile
    /\ UNCHANGED <<step, config, quizData, player, restarted, besideQuiz>>

handleFileUpload ==
    /\ step = "UPLOAD"
    /\ uploadedFile' = SomeFile
    /\ textInput' = Empty
    /\ UNCHANGED <<step, config, quizData, player, restarted, besideQuiz>>

\* "Next Step"
NextStep ==
    /\ step = "UPLOAD"
    /\ ~(textInput = Empty /\ uploadedFile = NoFile)
    /\ step' = "CONFIG"
    /\ UNCHANGED <<textInput, uploadedFile, config, quizData, player, restarted, besideQuiz>>

\* "Back"
Back ==
    /\ step = "CONFIG"
    /\ step' = "UPLOAD"
    /\ UNCHANGED <<textInput, uploadedFile, config, quizData, player, restarted, besideQuiz>>

SetDifficulty(d) ==
    /\ step = "CONFIG"
    /\ config' = [config EXCEPT !.difficulty = d]
    /\ UNCHANGED <<step, textInput, uploadedFile, quizData, player, restarted, besideQuiz>>

SetEnableTimer(val) ==
    /\ step = "CONFIG"
    /\ config' = [config EXCEPT !.enableTimer = val]
    /\ UNCHANGED <<step, textInput, uploadedFile, quizData, player, restarted, besideQuiz>>

SetSecondsPerQuestion(n) ==
    /\ step = "CONFIG"
    /\ config.enableTimer
    /\ config' = [config EXCEPT !.secondsPerQuestion = n]
    /\ UNCHANGED <<step, textInput, uploadedFile, quizData, player, restarted, besideQuiz>>

\* handleGenerate up to its await: the interval set, generateQuiz called
handleGenerate ==
    /\ step = "CONFIG"
    /\ step' = "LOADING"
    /\ generation' = [interval |-> "running", loadingMsg |-> 0, pending |-> TRUE, alerts |-> 0]
    /\ UNCHANGED <<textInput, uploadedFile, config, quizData, player, restarted,
                   leaderboardData, voiceVars, queuedTick>>

\* the callback of the loading-message interval
LoadingTick ==
    /\ generation.interval = "running"
    /\ generation' = [generation EXCEPT !.loadingMsg = (@ + 1) % LoadingMessages]
    /\ UNCHANGED <<step, textInput, uploadedFile, config, quizData, player, restarted,
                   leaderboardData, voiceVars, queuedTick>>

\* quiz lengths the generator is taken to return for this configuration
QuizLengths(cfg) ==
    {n \in 1..MaxQuestions :
        cfg.enableTimer => n * cfg.secondsPerQuestion <= MaxTimedSeconds}

\* handleGenerate after generateQuiz resolved with a quiz of n questions
GenerateResolved(n) ==
    /\ step = "LOADING"
    /\ ~(textInput = Empty /\ uploadedFile = NoFile)
    /\ quizData' = QuizOf(n)
    /\ step' = "PLAYING"
    /\ player' = Reconcile(player, "PLAYING", QuizOf(n), config)
    /\ generation' = [generation EXCEPT !.pending = FALSE, !.interval = "cleared"]
    /\ UNCHANGED <<textInput, uploadedFile, config, restarted, leaderboardData, voiceVars,
                   queuedTick>>

\* the catch branch of handleGenerate that lets the interval run on
handleGenerate_catch_KeepsInterval(g) ==
    [g EXCEPT !.pending = FALSE, !.alerts = @ + 1]

\* the catch branch of handleGenerate: clearInterval, alert
handleGenerate_catch(g) ==
    [g EXCEPT !.pending = FALSE, !.interval = "cleared", !.alerts = @ + 1]

\* handleGenerate after generateQuiz rejected (it threw before or after its
\* request, whatever the cause): the catch branch
GenerateRejected ==
    /\ step = "LOADING"
    /\ generation.pending
    /\ step' = "CONFIG"
    /\ generation' = handleGenerate_catch(generation)
    /\ UNCHANGED <<textInput, uploadedFile, config, quizData, player, restarted,
                   leaderboardData, voiceVars, queuedTick>>

----------------------------------------------------------------------------
(* QuizPlayer: the events the rendered tree can deliver *)

\* the question view is on screen
QuestionView == player.mounted /\ ~player.quizFinished

AppUnchanged == UNCHANGED <<step, textInput, uploadedFile, config, quizData, restarted, besideQuiz>>

\* an option button's onClick or the input's onChange (both disabled={showResult})
Answer(a) ==
    /\ QuestionView
    /\ ~player.showResult
    /\ player' = RunEffects(handleAnswer(player, a), config, FALSE)
    /\ AppUnchanged

\* "Submit Answer" shown beside "Next Question" as well
Submit_WhileRevealed ==
    /\ QuestionView
    /\ player.selectedAnswer # Empty
    /\ player' = RunEffects(handleSubmit(player, config, quizData), config, FALSE)
    /\ AppUnchanged

\* "Submit Answer": shown while !showResult, disabled={!selectedAnswer}
Submit ==
    /\ QuestionView
    /\ ~player.showResult
    /\ player.selectedAnswer # Empty
    /\ player' = RunEffects(handleSubmit(player, config, quizData), config, FALSE)
    /\ AppUnchanged

\* "Next Question" / "Finish Quiz": shown while showResult
NextQuestion ==
    /\ QuestionView
    /\ player.showResult
    /\ LET p == handleNext(player, quizData)
       IN  player' = RunEffects(p, config, p.currentIdx # player.currentIdx)
    /\ AppUnchanged

\* the one-second interval fires
Tick ==
    /\ player.mounted
    /\ player.timer
    /\ player' = RunEffects(TimerCallback(player), config, FALSE)
    /\ AppUnchanged

\* the one-second interval fires and queues setTimeLeft(prev => ...); React
\* renders the update in a later task.  It runs the updater at once when the
\* component has no update pending, and in the render otherwise
IntervalFires ==
    /\ player.mounted
    /\ player.timer
    /\ queuedTick = "none"
    /\ queuedTick' \in {"eager", "lazy"}
    /\ UNCHANGED <<step, textInput, uploadedFile, config, quizData, player, restarted,
                   leaderboardData, voiceVars, generation>>

\* React renders the queued tick.  A "lazy" updater runs now, on the state
\* as it is, and its handleTimeRunOut sets the streak last; an "eager" one
\* ran when the interval fired, so the setStreak of a handleSubmit that ran
\* since (it has revealed the result) is the later one of the two
RenderTick ==
    /\ player.mounted
    /\ queuedTick # "none"
    /\ LET p == TimerCallback(player)
           later == IF queuedTick = "eager" /\ player.showResult
                    THEN [p EXCEPT !.streak = player.streak]
                    ELSE p
       IN  player' = RunEffects(later, config, FALSE)
    /\ queuedTick' = "none"
    /\ UNCHANGED <<step, textInput, uploadedFile, config, quizData, restarted,
                   leaderboardData, voiceVars, generation>>

\* "Play Again" of the finished view: onRestart = resetApp
PlayAgain ==
    /\ player.mounted
    /\ player.quizFinished
    /\ step' = resetApp[1]
    /\ quizData' = resetApp[2]
    /\ uploadedFile' = resetApp[3]
    /\ textInput' = resetApp[4]
    /\ player' = Reconcile(player, resetApp[1], resetApp[2], config)
    /\ restarted' = (restarted \/ player.score > 0)
    /\ UNCHANGED <<config, besideQuiz>>

Next ==
    \/ \E t \in {Empty, SomeText} : OnTextChange(t)
    \/ handleFileUpload
    \/ NextStep
    \/ Back
    \/ \E d \in Difficulty : SetDifficulty(d)
    \/ \E val \in BOOLEAN : SetEnableTimer(val)
    \/ \E n \in SliderSeconds : SetSecondsPerQuestion(n)
    \/ handleGenerate
    \/ \E n \in QuizLengths(config) : GenerateResolved(n)
    \/ GenerateRejected
    \/ \E a \in Answers : Answer(a)
    \/ Submit
    \/ NextQuestion
    \/ Tick
    \/ PlayAgain

Spec == Init /\ [][Next]_vars

----------------------------------------------------------------------------
(* The end of a session: the last "Finish Quiz" click with the leaderboard  *)
(* effect it triggers, and the finished view.  Spec leaves the leaderboard  *)
(* cell alone (nothing of the quiz flow reads it); SpecSummary starts on    *)
(* the last question of sessions of SummaryLengths questions and takes the  *)
(* finishing step with every draw of the random values.                     *)

\* the finished view: percentage, rank and earnedAchievements of its render
percentage == percentageOf(player.score, Len(quizData.questions))
rank == getRank(percentage)
earnedAchievements ==
    getAchievements(player.score, Len(quizData.questions), player.maxStreak,
                    config, player.fastestAnswer)

\* an answer the comparison of handleSubmit rejects
WrongAnswer(correctAnswer) == IF isCorrect(ParSis, correctAnswer) THEN Paris ELSE ParSis

\* the QuizPlayer after the user answered the first s questions as expected
\* and the others wrongly, the result of the last question on screen
RECURSIVE PlayOut(_, _, _, _)
PlayOut(p, cfg, quiz, s) ==
    LET expected == currentQ(p, quiz).correctAnswer
        answer   == IF p.currentIdx < s THEN expected ELSE WrongAnswer(expected)
        chosen   == RunEffects(handleAnswer(p, answer), cfg, FALSE)
        shown    == RunEffects(handleSubmit(chosen, cfg, quiz), cfg, FALSE)
    IN  IF shown.currentIdx = Len(quiz.questions) - 1 THEN shown
        ELSE PlayOut(RunEffects(handleNext(shown, quiz), cfg, TRUE), cfg, quiz, s)

\* quiz lengths the generator is taken to have returned
SummaryLengths == (1..MaxSummaryQuiz) \cup {LongQuiz}

InitSummary ==
    /\ step = "PLAYING"
    /\ textInput = SomeText
    /\ uploadedFile = NoFile
    /\ config = DefaultConfig
    /\ \E n \in SummaryLengths : \E s \in 0..n :
         /\ quizData = QuizOf(n)
         /\ player = PlayOut(RunEffects(InitialPlayer(DefaultConfig), DefaultConfig, TRUE),
                             DefaultConfig, QuizOf(n), s)
    /\ restarted = FALSE
    /\ leaderboardData = <<>>
    /\ queuedTick = "none"
    /\ generation = [NoGeneration EXCEPT !.interval = "cleared", !.loadingMsg = 0]
    /\ showVoice = FALSE
    /\ VoiceAssistantMounted

\* "Finish Quiz": handleNext on the last question, and the leaderboard
\* effect of the render that follows
FinishQuiz ==
    /\ QuestionView
    /\ player.showResult
    /\ player.currentIdx = Len(quizData.questions) - 1
    /\ player' = RunEffects(handleNext(player, quizData), config, FALSE)
    /\ \E selectedNames \in NameDraws : \E draws \in [1..3 -> RandomDraws] :
         leaderboardData' = finalBoard(player'.coins, selectedNames, draws)
    /\ UNCHANGED <<step, textInput, uploadedFile, config, quizData, restarted, voiceVars, generation, queuedTick>>

NextSummary == FinishQuiz

SpecSummary == InitSummary /\ [][NextSummary]_vars

----------------------------------------------------------------------------
(* The voice panel: the life of its sessions *)

NextVoice ==
    \/ OpenPanel
    \/ ClosePanel
    \/ \E k \in 1..MaxSessions : MicGranted(k)
    \/ \E k \in 1..MaxSessions : MicDenied(k)
    \/ \E k \in 1..MaxSessions : onopen(k)
    \/ \E k \in 1..MaxSessions : onerror(k)
    \/ \E k \in 1..MaxSessions : onclose(k)
    \/ \E k \in 1..MaxSessions : \E rms \in {0, 1} : onaudioprocess(k, rms)
    \/ \E k \in 1..MaxSessions : \E bytes \in FrameBytes : \E ctxThrows \in BOOLEAN :
            onmessage(k, bytes, ctxThrows)

SpecVoice == Init /\ [][NextVoice]_vars

----------------------------------------------------------------------------
(* QuizPlayer with the countdown in two steps: the interval callback that  *)
(* queues the update, and the render of it; a click on an answer or on      *)
(* "Submit Answer" can come between the two and then runs the handlers of   *)
(* the render on screen.  Every other event waits for the render.           *)

NextRace ==
    \/ IntervalFires
    \/ RenderTick
    \/ \E a \in Answers : Answer(a)
    \/ Submit
    \/ /\ queuedTick = "none"
       /\ \/ \E t \in {Empty, SomeText} : OnTextChange(t)
          \/ handleFileUpload
          \/ NextStep
          \/ Back
          \/ \E d \in Difficulty : SetDifficulty(d)
          \/ \E val \in BOOLEAN : SetEnableTimer(val)
          \/ \E n \in SliderSeconds : SetSecondsPerQuestion(n)
          \/ handleGenerate
          \/ \E n \in QuizLengths(config) : GenerateResolved(n)
          \/ GenerateRejected
          \/ NextQuestion
          \/ PlayAgain

SpecRace == Init /\ [][NextRace]_vars

----------------------------------------------------------------------------
(* App: generating a quiz, the loading screen included *)

NextGenerate ==
    \/ \E t \in {Empty, SomeText} : OnTextChange(t)
    \/ handleFileUpload
    \/ NextStep
    \/ Back
    \/ \E d \in Difficulty : SetDifficulty(d)
    \/ \E val \in BOOLEAN : SetEnableTimer(val)
    \/ \E n \in SliderSeconds : SetSecondsPerQuestion(n)
    \/ handleGenerate
    \/ LoadingTick
    \/ \E n \in QuizLengths(config) : GenerateResolved(n)
    \/ GenerateRejected

SpecGenerate == Init /\ [][NextGenerate]_vars

----------------------------------------------------------------------------
(* The voice panel: inbound audio of one connected session *)

\* the panel opened once, the microphone granted and the session open
InitPlayback ==
    /\ step = "UPLOAD"
    /\ textInput = Empty
    /\ uploadedFile = NoFile
    /\ config = DefaultConfig
    /\ quizData = NoQuiz
    /\ player = Unmounted
    /\ restarted = FALSE
    /\ leaderboardData = <<>>
    /\ queuedTick = "none"
    /\ generation = NoGeneration
    /\ showVoice = TRUE
    /\ status = "connected"
    /\ volume = 0
    /\ refs = [audioContext |-> 1, stream |-> 1, processor |-> 1, source |-> 1, session |-> 1]
    /\ sessions = <<[StartedSession EXCEPT !.pc = "open", !.stream = "live",
                                           !.inputCtx = "running", !.source = "connected",
                                           !.processor = "connected"]>>
    /\ nextStartTime = 0
    /\ currentTime = 0
    /\ scheduled = <<>>
    /\ dropped = 0

NextPlayback ==
    \/ \E bytes \in FrameBytes : \E ctxThrows \in BOOLEAN : onmessage(1, bytes, ctxThrows)
    \/ ClockAdvance
    \/ ClosePanel

SpecPlayback == InitPlayback /\ [][NextPlayback]_vars

----------------------------------------------------------------------------
(* Vocabulary of the properties *)

\* r is x = num / den rounded to the nearest integer, a half rounding up
IsRounded(r, num, den) == 2 * den * r - den <= 2 * num /\ 2 * num < 2 * den * r + den

\* ten times the multiplier m the specification gives per difficulty tier
TierTimesTen(d) ==
    CASE d = "Easy" -> 10 [] d = "Medium" -> 15 [] d = "Hard" -> 20 [] d = "Very Hard" -> 30

\* r = round((100 * m + t) * (1 + min(0.1 * s, 0.5))), all scaled by 100
IsReward(r, d, timed, remaining, s) ==
    LET t == IF timed THEN 2 * remaining ELSE 0
        bonusTimesTen == IF s <= 5 THEN s ELSE 5
    IN  IsRounded(r, (10 * TierTimesTen(d) + t) * (10 + bonusTimesTen), 10)

\* the selected answer is the expected one of the current question
SelectedIsExpected ==
    isCorrect(player.selectedAnswer, currentQ(player, quizData).correctAnswer)

\* a step inside one quiz session
SameSession == player.mounted /\ player'.mounted

\* C1: a correct submission adds exactly 1 to score and to streak and adds
\* exactly round((100*m + t) * (1 + min(0.1*s, 0.5))) to coins, s being the
\* streak before; Medium/untimed/streak 0 pays 150, Easy/timed/10 s left/
\* streak 3 pays 156, and a prior streak above 5 pays what a streak of 5 pays.
C1_CorrectSubmit ==
    [][ (Submit /\ SelectedIsExpected) =>
          LET earned == player'.coins - player.coins
          IN  /\ player'.score = player.score + 1
              /\ player'.streak = player.streak + 1
              /\ IsReward(earned, config.difficulty, config.enableTimer,
                          player.timeLeft, player.streak)
              /\ (config.difficulty = "Medium" /\ ~config.enableTimer
                    /\ player.streak = 0) => earned = 150
              /\ (config.difficulty = "Easy" /\ config.enableTimer
                    /\ player.timeLeft = 10 /\ player.streak = 3) => earned = 156
              /\ player.streak >= 5 =>
                    IsReward(earned, config.difficulty, config.enableTimer,
                             player.timeLeft, 5)
      ]_vars

\* the fourth correct answer in a row of an Easy timed quiz, each given with
\* 10 s left: 120 + 132 + 144 + 156 coins
C1_Witness ==
    /\ player.mounted /\ player.showResult
    /\ config.difficulty = "Easy" /\ config.enableTimer
    /\ player.timeLeft = 10 /\ player.streak = 4 /\ player.score = 4
    /\ player.coins = 552

\* C2: an incorrect submission sets streak to 0, leaves score and coins as
\* they were and reveals the result; every submission ends with the result
\* revealed on the same question index.
C2_IncorrectSubmit ==
    [][ Submit =>
          /\ player'.showResult
          /\ player'.currentIdx = player.currentIdx
          /\ ~SelectedIsExpected =>
                /\ player'.streak = 0
                /\ player'.score = player.score
                /\ player'.coins = player.coins
      ]_vars

\* untimed quiz, two correct answers and then a wrong one submitted
C2_Witness ==
    /\ player.mounted /\ player.showResult /\ ~config.enableTimer
    /\ player.currentIdx = 2 /\ ~SelectedIsExpected
    /\ player.score = 2 /\ player.maxStreak = 2 /\ player.streak = 0

\* C3: with the timer on, the tick that takes the countdown to zero on a
\* question awaiting its answer reveals the result and sets streak to 0 with
\* score and coins unchanged, whatever answer is selected.
C3_TimerExpiry ==
    [][ (Tick /\ config.enableTimer /\ ~player.showResult /\ player.timeLeft = 1) =>
          /\ player'.timeLeft = 0
          /\ player'.showResult
          /\ player'.streak = 0
          /\ player'.score = player.score
          /\ player'.coins = player.coins
          /\ player'.currentIdx = player.currentIdx
      ]_vars

\* the countdown ran out on the second question with the expected answer
\* selected, after a correct first answer
C3_Witness ==
    /\ player.mounted /\ config.enableTimer
    /\ player.showResult /\ player.timeLeft = 0
    /\ player.currentIdx = 1 /\ SelectedIsExpected
    /\ player.score = 1 /\ player.maxStreak = 1 /\ player.streak = 0

\* C4: within a session no step lowers score or coins.
C4_ScoreCoinsMonotone ==
    [][ SameSession =>
          /\ player'.score >= player.score
          /\ player'.coins >= player.coins
      ]_vars

\* a session that earned coins, then lost its streak, then earned again
C4_Witness ==
    /\ player.mounted /\ player.quizFinished
    /\ player.score = 2 /\ player.maxStreak = 1 /\ player.streak = 1
    /\ player.coins > 0

\* C5: advancing from a revealed question that is not the last adds exactly 1
\* to the question index, empties the selected answer and hides the result
\* in the same step, with score, coins, streak and maxStreak unchanged.
C5_Advance ==
    [][ (NextQuestion /\ player.currentIdx < Len(quizData.questions) - 1) =>
          /\ player'.currentIdx = player.currentIdx + 1
          /\ player'.selectedAnswer = Empty
          /\ ~player'.showResult
          /\ player'.score = player.score
          /\ player'.coins = player.coins
          /\ player'.streak = player.streak
          /\ player'.maxStreak = player.maxStreak
          /\ ~player'.quizFinished
      ]_vars

\* on the third question with nothing selected, two correct answers behind
C5_Witness ==
    /\ player.mounted /\ ~player.showResult
    /\ player.currentIdx = 2 /\ player.selectedAnswer = Empty
    /\ player.score = 2 /\ player.streak = 2 /\ player.coins > 0

\* the fields C6 and C7 speak of
Counters(p) == <<p.score, p.coins, p.streak, p.maxStreak, p.currentIdx>>

\* C6: advancing from the revealed last question finishes the session, and
\* finished is terminal: from a finished session no step changes score,
\* coins, streak, maxStreak or the question index, no countdown is live, and
\* the session stays finished until Play Again removes it.
C6_FinishedTerminal ==
    /\ [][ (NextQuestion /\ player.currentIdx = Len(quizData.questions) - 1) =>
             (player'.quizFinished /\ Counters(player') = Counters(player)) ]_vars
    /\ [][ (player.mounted /\ player.quizFinished) =>
             \/ PlayAgain
             \/ /\ player'.mounted /\ player'.quizFinished
                /\ Counters(player') = Counters(player) ]_vars
    /\ [](player.mounted /\ player.quizFinished =>
             ~player.timer /\ ~ENABLED Tick /\ ~ENABLED Submit
                /\ ~ENABLED NextQuestion /\ \A a \in Answers : ~ENABLED Answer(a))

\* a timed session finished with coins earned and a streak still standing
C6_Witness ==
    /\ player.mounted /\ player.quizFinished
    /\ config.enableTimer /\ player.timerActive = FALSE
    /\ player.streak = 2 /\ player.score = 2 /\ player.currentIdx = 1

\* C7: Play Again on a finished session removes the QuizPlayer, and the
\* QuizPlayer of the next session starts with score, coins, streak,
\* maxStreak and question index all 0, whatever the finished session reached.
C7_RestartResets ==
    /\ [][ PlayAgain => (~player'.mounted /\ step' = "UPLOAD" /\ quizData'.null) ]_vars
    /\ [][ (~player.mounted /\ player'.mounted) =>
             (Counters(player') = <<0, 0, 0, 0, 0>>
                /\ ~player'.quizFinished /\ ~player'.showResult) ]_vars
    /\ [](restarted /\ player.mounted /\ player.currentIdx = 0 /\ ~player.showResult
             => Counters(player) = <<0, 0, 0, 0, 0>>)

\* the first question of a session started after a session that scored
C7_Witness ==
    /\ restarted /\ step = "PLAYING" /\ player.mounted
    /\ player.currentIdx = 0 /\ ~player.showResult /\ player.score = 0

\* C8: with the timer on, every question transition sets the remaining time
\* to secondsPerQuestion and leaves the countdown running, whether the
\* question left was locked by a submission (timerActive false) or by expiry
\* (timeLeft 0).
C8_TimerResetsOnTransition ==
    [][ (NextQuestion /\ config.enableTimer
            /\ player'.currentIdx # player.currentIdx) =>
          /\ player'.timeLeft = config.secondsPerQuestion
          /\ player'.timerActive /\ player'.timer
          /\ ~player'.showResult
      ]_vars

\* second question of a timed quiz, countdown full and running again, the
\* first question having been locked without credit (a wrong submission or
\* the countdown running out)
C8_Witness ==
    /\ player.mounted /\ config.enableTimer
    /\ player.currentIdx = 1 /\ ~player.showResult
    /\ player.timeLeft = config.secondsPerQuestion /\ player.timer
    /\ player.score = 0 /\ player.fastestAnswer = Infinity

Normalised(x) == toLowerCase(trim(x))

\* C10: a submitted answer a counts as correct (score goes up) exactly when
\* lowercase(trim(a)) = lowercase(trim(e)) for the expected answer e.
C10_AnswerComparison ==
    [][ Submit =>
          LET a == player.selectedAnswer
              e == currentQ(player, quizData).correctAnswer
          IN  /\ (player'.score = player.score + 1) <=> (Normalised(a) = Normalised(e))
              /\ (player'.score = player.score) <=> (Normalised(a) # Normalised(e))
      ]_vars

\* " Paris " submitted for the expected "paris" was credited
C10_Witness ==
    /\ player.mounted /\ player.showResult /\ player.currentIdx = 0
    /\ player.selectedAnswer = ParisPad
    /\ currentQ(player, quizData).correctAnswer = Paris
    /\ player.score = 1

\* the finished view is on screen
FinishedView == player.mounted /\ player.quizFinished

\* the whole percentage nearest to 100 * score / n
NearestPercent(score, n) == CHOOSE r \in 0..100 : IsRounded(r, 100 * score, n)

\* C11: at session end the rank follows the percentage of questions answered
\* correctly (taken to the nearest whole percent): 100 gives Galactic
\* Overlord, 80..99 Star Voyager, 50..79 Space Cadet (79 included), less
\* Rocket Rookie; and Galactic Overlord is given exactly when every question
\* was answered correctly, which is exactly when Perfectionist is awarded.
C11_RankTiers ==
    FinishedView =>
        LET n == Len(quizData.questions)
            r == NearestPercent(player.score, n)
        IN  /\ rank = "Galactic Overlord" <=> r = 100
            /\ rank = "Star Voyager" <=> r \in 80..99
            /\ rank = "Space Cadet" <=> r \in 50..79
            /\ rank = "Rocket Rookie" <=> r < 50
            /\ rank = "Galactic Overlord" <=> player.score = n
            /\ rank = "Galactic Overlord" <=> "perfectionist" \in earnedAchievements

\* seconds the answer being submitted took: those elapsed of the countdown,
\* 0 when the quiz is not timed
TimeTaken == IF config.enableTimer THEN config.secondsPerQuestion - player.timeLeft ELSE 0

\* the finished view of a long quiz with one wrong answer: 199 of 200 is
\* rounded to 100 and ranked Galactic Overlord, without Perfectionist
C11_Divergence ==
    /\ FinishedView
    /\ player.score = Len(quizData.questions) - 1
    /\ rank = "Galactic Overlord"
    /\ "perfectionist" \notin earnedAchievements

\* C12: fastestAnswer is the least time a correct answer took (Infinity when
\* there is none), and the finished view awards Perfectionist exactly when
\* every question was answered correctly, Unstoppable exactly when the
\* maximum streak is at least 5, Speed Demon exactly when the quiz is timed
\* and the fastest correct answer took fewer than 5 seconds (never when it
\* is not timed), Knowledge Seeker exactly when at least half and not all
\* of the questions were answered correctly.
C12_Badges ==
    [][ /\ Submit =>
              player'.fastestAnswer =
                 IF SelectedIsExpected
                      /\ (player.fastestAnswer = Infinity \/ TimeTaken < player.fastestAnswer)
                 THEN TimeTaken
                 ELSE player.fastestAnswer
        /\ FinishedView' =>
              LET n == Len(quizData'.questions)
                  p == player'
                  badges == earnedAchievements'
              IN  /\ "perfectionist" \in badges <=> p.score = n
                  /\ "unstoppable" \in badges <=> p.maxStreak >= 5
                  /\ "speedster" \in badges <=>
                        /\ config'.enableTimer
                        /\ p.fastestAnswer # Infinity
                        /\ p.fastestAnswer < 5
                  /\ ~config'.enableTimer => "speedster" \notin badges
                  /\ "knowledgeable" \in badges <=> (2 * p.score >= n /\ p.score < n)
                  /\ badges \subseteq {"perfectionist", "unstoppable", "speedster",
                                       "knowledgeable"}
      ]_vars

\* a timed quiz finished with a correct answer given inside 5 seconds and
\* another question missed
C12_Witness ==
    /\ FinishedView
    /\ config.enableTimer
    /\ earnedAchievements = {"speedster", "knowledgeable"}

\* an untimed quiz finished with six answers in a row right and one wrong:
\* its fastest answer took 0 seconds and earns no Speed Demon
C12_WitnessUntimed ==
    /\ FinishedView
    /\ ~config.enableTimer
    /\ player.fastestAnswer = 0
    /\ earnedAchievements = {"unstoppable", "knowledgeable"}

\* the positions of the leaderboard
Places == 1..Len(leaderboardData)
BotPlaces == {i \in Places : ~leaderboardData[i].isUser}
UserPlaces == {i \in Places : leaderboardData[i].isUser}

\* C13: the leaderboard generated when the quiz finishes holds the user's
\* entry exactly once, with the final coin total as its score, and exactly
\* 3 bot entries, in non-increasing order of score, whatever the random
\* values are.
C13_Leaderboard ==
    [][ FinishQuiz =>
          /\ Cardinality(UserPlaces') = 1
          /\ \A i \in UserPlaces' :
                /\ leaderboardData'[i].score = player'.coins
                /\ leaderboardData'[i].name = "Captain You"
          /\ player'.coins = player.coins
          /\ Cardinality(BotPlaces') = 3
          /\ Len(leaderboardData') = 4
          /\ \A i \in Places' :
                i + 1 \in Places' => leaderboardData'[i].score >= leaderboardData'[i + 1].score
      ]_vars

\* a leaderboard with the user second, between a bot that scored more and
\* a bot that scored less
C13_Witness ==
    /\ FinishedView
    /\ Len(leaderboardData) = 4
    /\ leaderboardData[2].isUser
    /\ leaderboardData[1].score > leaderboardData[2].score
    /\ leaderboardData[2].score > leaderboardData[3].score

\* C14: every bot score of the leaderboard is at least 50 and at most 300
\* away from the user's final coin total, whatever that total and the random
\* values are, the floor of 50 included.
C14_BotScores ==
    [][ FinishQuiz =>
          \A i \in BotPlaces' :
             LET botScore_i == leaderboardData'[i].score
             IN  /\ botScore_i >= 50
                 /\ botScore_i - player'.coins <= 300
                 /\ player'.coins - botScore_i <= 300
      ]_vars

\* 150 coins at the end: a bot drawn 300 below is lifted to the floor of
\* 50, another is drawn 299 above
C14_Witness ==
    /\ FinishedView
    /\ player.coins = 150
    /\ \E i \in BotPlaces : leaderboardData[i].score = 50
    /\ \E i \in BotPlaces : leaderboardData[i].score = 449

\* no coins at the end: the bots drawn below 50 stand at the floor, above
\* the user
C14_WitnessNoCoins ==
    /\ FinishedView
    /\ player.coins = 0
    /\ leaderboardData[4].isUser
    /\ leaderboardData[3].score = 50
    /\ leaderboardData[1].score = 299

\* an inbound frame was decoded and scheduled in this step
FrameScheduled == Len(scheduled') = Len(scheduled) + 1

\* C15: every decoded inbound frame starts at the later of the playback
\* clock and the cursor, and the cursor then stands at that start plus the
\* frame's duration; the cursor never decreases, and a frame never starts
\* before the end of the frame before it.
C15_Cursor ==
    [][ /\ nextStartTime' >= nextStartTime
        /\ FrameScheduled =>
              LET frame == scheduled'[Len(scheduled')]
                  later == IF currentTime >= nextStartTime THEN currentTime ELSE nextStartTime
              IN  /\ frame.startTime = later
                  /\ nextStartTime' = frame.startTime + frame.duration
                  /\ scheduled # <<>> =>
                        LET before == scheduled[Len(scheduled)]
                        IN  frame.startTime >= before.startTime + before.duration
        /\ ~FrameScheduled => nextStartTime' = nextStartTime
      ]_vars

\* three frames: the second came after the first had ended and started at
\* once, the third came while the second played and waits for its end
C15_Witness ==
    /\ Len(scheduled) = 3
    /\ scheduled[2].now > scheduled[1].startTime + scheduled[1].duration
    /\ scheduled[2].startTime = scheduled[2].now
    /\ scheduled[3].now < scheduled[2].startTime + scheduled[2].duration
    /\ scheduled[3].startTime = scheduled[2].startTime + scheduled[2].duration

\* all frames scheduled so far have the duration d
AllOfDuration(d) == \A n \in 1..Len(scheduled) : scheduled[n].duration = d

Later(a, b) == IF a >= b THEN a ELSE b

\* C16, the closed form of the specification: when the inbound frames all have the duration d, the n-th
\* starts at max(clock at its arrival, clock at the first frame's arrival +
\* (n - 1) * d).
C16_ClosedForm ==
    \A d \in 1..2 :
       AllOfDuration(d) =>
          \A n \in 1..Len(scheduled) :
             scheduled[n].startTime =
                Later(scheduled[n].now, scheduled[1].now + (n - 1) * d)

\* C16, as the source schedules: when the inbound frames all have the duration d, the first
\* starts on arrival and the n-th at max(clock at its arrival, start of the
\* frame before + d), so frames never overlap; as long as no frame arrives
\* after the frame before it has ended, the n-th starts at the first
\* frame's arrival + (n - 1) * d.
C16_BackToBack ==
    \A d \in 1..2 :
       AllOfDuration(d) =>
          \A n \in 1..Len(scheduled) :
             /\ n = 1 => scheduled[n].startTime = scheduled[n].now
             /\ n > 1 => scheduled[n].startTime =
                            Later(scheduled[n].now, scheduled[n - 1].startTime + d)
             /\ (\A m \in 2..n : scheduled[m].now <= scheduled[m - 1].startTime + d)
                   => scheduled[n].startTime = scheduled[1].now + (n - 1) * d

\* three frames of one sample: the second arrives after a gap, the third
\* with it, and starts one sample after the second
C16_Witness ==
    /\ Len(scheduled) = 3
    /\ AllOfDuration(1)
    /\ scheduled[1].now = 0
    /\ scheduled[2].now = 3 /\ scheduled[2].startTime = 3
    /\ scheduled[3].now = 3 /\ scheduled[3].startTime = 4

\* onerror or onclose of some session
TransportError == \E k \in 1..MaxSessions : onerror(k) \/ onclose(k)

\* C17: onerror and onclose of the remote session tear down what the panel
\* holds as closing it does: the capture stream is stopped, the source and
\* the processor are disconnected, the playback context is closed, the refs
\* are cleared and status is 'connecting'.
C17_ErrorTearsDown ==
    [][ TransportError =>
          /\ refs.stream # 0 => sessions'[refs.stream].stream = "stopped"
          /\ refs.source # 0 => sessions'[refs.source].source = "disconnected"
          /\ refs.processor # 0 => sessions'[refs.processor].processor = "disconnected"
          /\ refs.audioContext # 0 => sessions'[refs.audioContext].audioCtx = "closed"
          /\ refs' = NullRefs
          /\ status' = "connecting"
      ]_vars

\* the session started when the panel was last opened has had a transport
\* failure, and the panel is still open
CurrentFailed ==
    /\ showVoice
    /\ sessions # <<>>
    /\ sessions[Len(sessions)].pc \in {"errored", "closed"}

\* C18: onerror and onclose set status to 'error'; once the session of an
\* open panel has failed, status stays 'error' for as long as the panel
\* stays open; and startSession is called only by opening the panel.
C18_ErrorTerminal ==
    [][ /\ TransportError => status' = "error"
        /\ (CurrentFailed /\ showVoice') => status' = "error"
        /\ Len(sessions') > Len(sessions) => (~showVoice /\ showVoice')
      ]_vars

\* C19: closing the panel while status is 'connected' and a processor is
\* attached stops the tracks of the stream, disconnects the processor, and
\* leaves no processor that delivers capture callbacks (and with them
\* outbound frames).
C19_CloseStopsCapture ==
    [][ (ClosePanel /\ status = "connected" /\ refs.processor # 0) =>
          /\ refs.stream # 0 => sessions'[refs.stream].stream = "stopped"
          /\ sessions'[refs.processor].processor = "disconnected"
          /\ \A k \in DOMAIN sessions' : ~Capturing(sessions', k)
      ]_vars

\* C20: while the panel is closed no session holds a live microphone
\* stream, a connected source or processor, or an audio context that is not
\* closed, whatever the session was doing when the panel was closed and
\* whatever steps of startSession completed since.
C20_CloseReleasesAll ==
    ~showVoice =>
        \A k \in DOMAIN sessions :
           /\ sessions[k].stream # "live"
           /\ sessions[k].source # "connected"
           /\ sessions[k].processor # "connected"
           /\ sessions[k].audioCtx # "running"
           /\ sessions[k].inputCtx # "running"

\* C21: capture callbacks fire only while status is 'connected': no
\* processor delivers them while status is 'connecting' or 'error'.
C21_CaptureOnlyConnected ==
    \A k \in DOMAIN sessions : Capturing(sessions, k) => status = "connected"

\* a message with audio data is delivered in this step
AudioDelivered ==
    \E bytes \in FrameBytes \ {0} : \E ctxThrows \in BOOLEAN : onmessage(1, bytes, ctxThrows)

\* C22: an inbound frame that playAudioChunk fails on (an odd number of
\* bytes, or a playback context that rejects the calls because it is closed)
\* is dropped alone: the cursor and status stay as they were; every other
\* frame delivered, before or after, is scheduled, at the later of the
\* clock and the cursor.
C22_DropsOnlyFrame ==
    [][ AudioDelivered =>
          /\ ~FrameScheduled =>
                /\ dropped' = dropped + 1
                /\ nextStartTime' = nextStartTime
                /\ status' = status
                /\ scheduled' = scheduled
          /\ FrameScheduled =>
                /\ dropped' = dropped
                /\ scheduled'[Len(scheduled')].startTime = Later(currentTime, nextStartTime)
          /\ (\E bytes \in {2, 4} : onmessage(1, bytes, FALSE)) => FrameScheduled
      ]_vars

\* a frame was scheduled, the next one was dropped, and the one after it
\* was scheduled right behind the first
C22_Witness ==
    /\ dropped = 1
    /\ Len(scheduled) = 2
    /\ scheduled[2].now = scheduled[1].now
    /\ scheduled[2].startTime = scheduled[1].startTime + scheduled[1].duration
    /\ nextStartTime = scheduled[2].startTime + scheduled[2].duration

\* the panel was closed and a frame of the session, which is still open,
\* was dropped by the closed context
C22_WitnessClosed ==
    /\ ~showVoice
    /\ dropped = 1
    /\ scheduled = <<>>
    /\ nextStartTime = 0

\* C23: a call of handleGenerate whose generateQuiz fails shows exactly one
\* alert, stops the loading-message interval, leaves quizData as it was and
\* takes the step from LOADING back to CONFIG, not to PLAYING, with no
\* request pending afterwards; one that succeeds stops the interval as well
\* and takes the step to PLAYING with quizData set.  The interval runs, and
\* a request is pending, only on the loading screen.
C23_GenerationOutcome ==
    /\ [](generation.pending <=> step = "LOADING")
    /\ [](generation.interval = "running" <=> step = "LOADING")
    /\ [][ /\ GenerateRejected =>
                /\ generation.alerts = 0 /\ generation'.alerts = 1
                /\ generation'.interval = "cleared"
                /\ ~generation'.pending
                /\ quizData' = quizData
                /\ step = "LOADING" /\ step' = "CONFIG"
           /\ (\E n \in QuizLengths(config) : GenerateResolved(n)) =>
                /\ generation'.alerts = 0
                /\ generation'.interval = "cleared"
                /\ ~generation'.pending
                /\ step = "LOADING" /\ step' = "PLAYING"
                /\ ~quizData'.null
           /\ generation'.alerts # generation.alerts => GenerateRejected \/ handleGenerate
      ]_vars

\* a generation failed after the loading message had changed
C23_Witness ==
    /\ step = "CONFIG"
    /\ generation.alerts = 1
    /\ generation.interval = "cleared"
    /\ generation.loadingMsg = 2
    /\ quizData.null

\* a generation succeeded on the click after one that failed
C23_WitnessSuccess ==
    /\ step = "PLAYING"
    /\ generation.alerts = 0
    /\ generation.interval = "cleared"
    /\ generation.loadingMsg = 4
    /\ ~quizData.null

\* C24: within a session maxStreak never decreases, and after every step it
\* is the larger of what it was and the streak the step leaves, so it is
\* never below the current streak and, at session end, it is the largest
\* streak the session reached.
C24_MaxStreak ==
    /\ [](player.mounted => player.maxStreak >= player.streak)
    /\ [][ SameSession =>
             /\ player'.maxStreak >= player.maxStreak
             /\ player'.maxStreak = Later(player.maxStreak, player'.streak)
         ]_vars

\* a finished session whose streak reached 3, was lost and ended at 1
C24_Witness ==
    /\ FinishedView
    /\ player.score = 4
    /\ player.maxStreak = 3
    /\ player.streak = 1

\* the result of the current question is on screen
Revealed == player.mounted /\ player.showResult /\ ~player.quizFinished

\* C25: once the result of a question is revealed, by a submission or by
\* the time running out, nothing that happens while that question is
\* current (a countdown tick above all) changes streak, score, coins or the
\* revealed flag: a streak just earned is not reset by a late tick.
C25_LockedOnce ==
    [][ Revealed /\ player'.mounted /\ player'.currentIdx = player.currentIdx =>
          /\ player'.showResult
          /\ player'.streak = player.streak
          /\ player'.score = player.score
          /\ player'.coins = player.coins
      ]_vars

\* the time of a question that ran out leaves the streak at 0: a question
\* is not both timed out and credited
C25_ExpiryNotCredited ==
    Revealed /\ config.enableTimer /\ player.timeLeft = 0 => player.streak = 0

\* the number of questions of the quiz being played
NumQuestions == Len(quizData.questions)

\* C26: while a quiz is played the index of the current question is at
\* least 0 and below the number of questions, so there is exactly one
\* current question; advancing moves the index by one at most and never
\* past the last question.
C26_IndexInRange ==
    /\ [](player.mounted =>
            /\ NumQuestions >= 1
            /\ player.currentIdx \in 0..(NumQuestions - 1)
            /\ currentQ(player, quizData) = quizData.questions[player.currentIdx + 1])
    /\ [][ NextQuestion =>
             /\ player'.currentIdx \in {player.currentIdx, player.currentIdx + 1}
             /\ player'.currentIdx <= NumQuestions - 1
             /\ player.currentIdx = NumQuestions - 1 =>
                  player'.currentIdx = player.currentIdx /\ player'.quizFinished
         ]_vars

\* "Finish Quiz" was clicked on the last of several questions
C26_Witness ==
    /\ FinishedView
    /\ NumQuestions = 3
    /\ player.currentIdx = 2

\* C27: score goes up only by a submission, made while the result is not
\* revealed and an answer is selected, and then by 1; so streak <= score,
\* score <= currentIdx + 1 once the result is revealed, score <= currentIdx
\* while the question awaits its answer, and score never exceeds the number
\* of questions.
C27_CreditedOnce ==
    /\ [](player.mounted =>
            /\ player.streak <= player.score
            /\ player.showResult => player.score <= player.currentIdx + 1
            /\ ~player.showResult => player.score <= player.currentIdx
            /\ player.score <= NumQuestions)
    /\ [][ SameSession /\ player'.score # player.score =>
             /\ ~player.showResult
             /\ player.selectedAnswer # Empty
             /\ player'.showResult
             /\ player'.score = player.score + 1
         ]_vars

\* every question so far was credited, the last one just now
C27_Witness ==
    /\ Revealed
    /\ player.currentIdx = 2
    /\ player.score = 3
    /\ player.streak = 3

\* a question awaits its answer, every earlier one credited, after a
\* streak was lost to the clock
C27_WitnessAwaiting ==
    /\ QuestionView
    /\ ~player.showResult
    /\ player.currentIdx = 3
    /\ player.score = 2
    /\ player.streak = 1

\* C28: coins >= 100 * score in every state of a session (a correct answer
\* earns 100 coins at least), so coins is 0 exactly when score is 0.
C28_CoinsFloor ==
    player.mounted =>
        /\ player.coins >= 100 * player.score
        /\ player.coins = 0 <=> player.score = 0

\* one answer credited with exactly 100 coins
C28_Witness ==
    /\ player.mounted
    /\ player.score = 1
    /\ player.coins = 100

\* C29: with the timer enabled 0 <= timeLeft <= secondsPerQuestion, and
\* timeLeft is 0 only with the result revealed; a submission is made with
\* timeLeft >= 1, so a correct one earns 2 coins at least over what it
\* earns untimed.
C29_TimeLeftRange ==
    /\ [](player.mounted /\ config.enableTimer =>
            /\ player.timeLeft \in 0..config.secondsPerQuestion
            /\ player.timeLeft = 0 => player.showResult)
    /\ [][ Submit /\ config.enableTimer =>
             /\ player.timeLeft >= 1
             /\ player'.score > player.score =>
                  player'.coins - player.coins >=
                      earnedCoins([config EXCEPT !.enableTimer = FALSE], 0, player.streak) + 2
         ]_vars

\* a correct answer submitted in the last second
C29_Witness ==
    /\ Revealed
    /\ config.enableTimer
    /\ player.timeLeft = 1
    /\ player.score = 1
    /\ player.streak = 1

\* a callback of a session that an earlier opening of the panel started
\* runs in this step
EarlierSessionCalls ==
    \E k \in 1..(Len(sessions) - 1) :
        \/ onopen(k)
        \/ onerror(k)
        \/ onclose(k)
        \/ \E bytes \in FrameBytes : \E ctxThrows \in BOOLEAN : onmessage(k, bytes, ctxThrows)

\* C30: status is never 'connected' while the panel is closed, and once the
\* panel is open again no callback of a session started by an earlier
\* opening (onopen, onmessage, onclose, onerror) changes status, the stored
\* stream, source and processor, or the playback cursor.
C30_Isolated ==
    /\ [](~showVoice => status # "connected")
    /\ [][ showVoice /\ EarlierSessionCalls =>
             /\ status' = status
             /\ refs'.stream = refs.stream
             /\ refs'.source = refs.source
             /\ refs'.processor = refs.processor
             /\ nextStartTime' = nextStartTime
         ]_vars

====
